---- MODULE Spec2Model ----
(***************************************************************************)
(* Model of gfx core memory.rs: the Usage / Access / Bind descriptors, the *)
(* Pod marker registrations, and cast_slice.                               *)
(*                                                                         *)
(* Three specifications share the variables:                               *)
(*   Spec       cast_slice applied to borrowed slices of Pod elements      *)
(*   FlagSpec   Access or Bind values combined by | and &                  *)
(*   UsageSpec  Usage values built from Access values                      *)
(***************************************************************************)
EXTENDS Integers, Naturals, Sequences, FiniteSets, TLC

VARIABLES
    ptr_width,  \* target_pointer_width of the build, in bits
    mem,        \* the bytes of the buffer the slice borrows from
    slice,      \* the argument `slice: &[A]` of the current/last call
    B,          \* the type parameter B of the current/last call
    result,     \* the returned `&[B]` (meaningful when pc = "returned")
    pc,         \* "ready" | "returned" | "div_by_zero" | "assert_failed" | "misaligned"
    fty,        \* the flags type a caller works with: "Access" or "Bind"
    fl,         \* three values x, y, z of that flags type
    usage       \* a Usage value held by a caller

vars == <<ptr_width, mem, slice, B, result, pc, fty, fl, usage>>
castVars == <<ptr_width, mem, slice, B, result, pc>>

----------------------------------------------------------------------------
(* Bounds *)

MaxLen == 4         \* longest borrowed slice, in elements
MaxArrayLen == 4    \* longest fixed-size array type [T; n] considered
MaxOffset == 1      \* largest start offset of the slice inside the buffer, in 4-byte units

----------------------------------------------------------------------------
(* Pod types *)

\* impl_pod! { ty = ... }
Prims == {"isize", "usize", "i8", "u8", "i16", "u16", "i32", "u32",
          "i64", "u64", "f32", "f64"}

\* impl_pod! { ar = 0 1 2 ... 32 }: the registered array lengths start at 0.
MinArrayLen == 0
ArrayLens == MinArrayLen .. MaxArrayLen

Scalar(p) == [kind |-> "ty", elem |-> p, n |-> 1]
Array(p, k) == [kind |-> "ar", elem |-> p, n |-> k]

\* element types of the arrays considered: one primitive of each size
ArrayElems == {"u8", "i32", "u64", "usize"}

\* The types carrying the Pod marker: the primitives, and [T; n] for a Pod
\* type T (one level of arrays, over ArrayElems, is modelled).
PodTypes == {Scalar(p) : p \in Prims} \cup {Array(p, k) : p \in ArrayElems, k \in ArrayLens}

PtrWidths == {32, 64}

\* mem::size_of of a primitive
PrimSize(p, w) ==
    CASE p \in {"i8", "u8"} -> 1
      [] p \in {"i16", "u16"} -> 2
      [] p \in {"i32", "u32", "f32"} -> 4
      [] p \in {"i64", "u64", "f64"} -> 8
      [] p \in {"isize", "usize"} -> w \div 8

\* mem::size_of::<T>()
SizeOf(t, w) == IF t.kind = "ar" THEN t.n * PrimSize(t.elem, w) ELSE PrimSize(t.elem, w)

Min(a, b) == IF a < b THEN a ELSE b

\* mem::align_of::<T>(): a primitive is aligned to its size, capped by the
\* word size; an array is aligned as its element.
AlignOf(t, w) == Min(PrimSize(t.elem, w), w \div 8)

----------------------------------------------------------------------------
(* cast_slice *)

\* usize::wrapping_mul.  usize is at least 32 bits wide and a slice never
\* occupies more than isize::MAX bytes, so within the bounds of this model
\* the product is below the modulus and the reduction leaves it unchanged.
WrappingMul(a, b) == a * b

\* the assertion left out: every comparison passes
AssertEqSkipped(left, right) == TRUE

\* assert_eq!(left, right) passes
AssertEqPasses(left, right) == left = right

\* the start of the buffer taken instead of the start of the slice
AsPtrOfBuffer(s) == 0

\* slice.as_ptr(): the address of the first element (an offset into mem)
AsPtr(s) == s.ptr

\* slice::from_raw_parts(p as *const B, len)
FromRawParts(p, len, t) == [ty |-> t, ptr |-> p, len |-> len]

\* raw_len: the byte length of the argument
RawLen(s, w) == WrappingMul(SizeOf(s.ty, w), s.len)

\* the bytes a slice views
Bytes(s, w) == SubSeq(mem, s.ptr + 1, s.ptr + s.len * SizeOf(s.ty, w))

NoResult == [ty |-> Scalar("u8"), ptr |-> 0, len |-> 0]

\* One call cast_slice::<A, B>(arg), where arg is a fresh borrow or the
\* result of the previous call.
CastSlice(Bt) ==
    /\ pc \in {"ready", "returned"}
    /\ LET arg == IF pc = "returned" THEN result ELSE slice
           raw_len == RawLen(arg, ptr_width)
           sb == SizeOf(Bt, ptr_width)
       IN /\ slice' = arg
          /\ B' = Bt
          /\ IF sb = 0
             THEN \* raw_len / 0 panics
                  /\ pc' = "div_by_zero"
                  /\ result' = NoResult
             ELSE LET len == raw_len \div sb
                  IN IF ~AssertEqPasses(raw_len, WrappingMul(sb, len))
                     THEN /\ pc' = "assert_failed"
                          /\ result' = NoResult
                     ELSE IF AsPtr(arg) % AlignOf(Bt, ptr_width) = 0
                     THEN /\ pc' = "returned"
                          /\ result' = FromRawParts(AsPtr(arg), len, Bt)
                     ELSE \* from_raw_parts with a misaligned pointer is
                          \* undefined: the call returns the view, or the
                          \* build's precondition check stops the program
                          \/ /\ pc' = "returned"
                             /\ result' = FromRawParts(AsPtr(arg), len, Bt)
                          \/ /\ pc' = "misaligned"
                             /\ result' = NoResult
    /\ UNCHANGED <<ptr_width, mem, fty, fl, usage>>

----------------------------------------------------------------------------
(* Flags *)

U8Bits == 8

RECURSIVE BitOrN(_, _, _)
BitOrN(a, b, n) ==
    IF n = 0 THEN 0
    ELSE (IF a % 2 = 1 \/ b % 2 = 1 THEN 1 ELSE 0) + 2 * BitOrN(a \div 2, b \div 2, n - 1)

RECURSIVE BitAndN(_, _, _)
BitAndN(a, b, n) ==
    IF n = 0 THEN 0
    ELSE (IF a % 2 = 1 /\ b % 2 = 1 THEN 1 ELSE 0) + 2 * BitAndN(a \div 2, b \div 2, n - 1)

\* + written for |
BitOrAsAdd(a, b) == (a + b) % 256

\* `x | y` on a flags value backed by u8
BitOr(a, b) == BitOrN(a, b, U8Bits)
\* `x & y` on a flags value backed by u8
BitAnd(a, b) == BitAndN(a, b, U8Bits)

READ == 1
WRITE == 2
\* RW given the next free bit instead of both bits
RWOwnBit == 2 * WRITE
RW == 3
AccessConsts == {READ, WRITE, RW}

RENDER_TARGET == 1
DEPTH_STENCIL == 2
SHADER_RESOURCE == 4
\* 0x10 written for 0x8
UnorderedAccessShifted == 2 * 8
UNORDERED_ACCESS == 8
BindConsts == {RENDER_TARGET, DEPTH_STENCIL, SHADER_RESOURCE, UNORDERED_ACCESS}

\* Access::empty() / Bind::empty()
EmptyFlags == 0

FlagTypes == {"Access", "Bind"}
NamedConsts(t) == IF t = "Access" THEN AccessConsts ELSE BindConsts

Regs == {"x", "y", "z"}

\* r = <named constant>  or  r = empty()
FlagConst(r, c) ==
    /\ c \in NamedConsts(fty) \cup {EmptyFlags}
    /\ fl' = [fl EXCEPT ![r] = c]
    /\ UNCHANGED <<castVars, fty, usage>>

\* r = p | q
FlagUnion(r, p, q) ==
    /\ fl' = [fl EXCEPT ![r] = BitOr(fl[p], fl[q])]
    /\ UNCHANGED <<castVars, fty, usage>>

\* r = p & q
FlagIntersect(r, p, q) ==
    /\ fl' = [fl EXCEPT ![r] = BitAnd(fl[p], fl[q])]
    /\ UNCHANGED <<castVars, fty, usage>>

\* r = p | <named constant>
FlagUnionConst(r, p, c) ==
    /\ c \in NamedConsts(fty)
    /\ fl' = [fl EXCEPT ![r] = BitOr(fl[p], c)]
    /\ UNCHANGED <<castVars, fty, usage>>

\* r = p & <named constant>
FlagIntersectConst(r, p, c) ==
    /\ c \in NamedConsts(fty)
    /\ fl' = [fl EXCEPT ![r] = BitAnd(fl[p], c)]
    /\ UNCHANGED <<castVars, fty, usage>>

----------------------------------------------------------------------------
(* Usage *)

PlainUsages == {"GpuOnly", "Immutable", "Dynamic"}
AccessUsages == {"Persistent", "CpuOnly"}

\* Usage::GpuOnly, Usage::Immutable, Usage::Dynamic
MakeUsage(tag) ==
    /\ usage' = <<tag>>
    /\ UNCHANGED <<castVars, fty, fl>>

\* Usage::Persistent(a), Usage::CpuOnly(a) for an Access value a
MakeUsageAccess(tag, r) ==
    /\ fty = "Access"
    /\ usage' = <<tag, fl[r]>>
    /\ UNCHANGED <<castVars, fty, fl>>

----------------------------------------------------------------------------
(* Specifications *)

\* byte i of a buffer filled from a seed: neighbouring positions differ
Pattern(seed, n) == [i \in 1 .. n |-> (seed + 7 * i) % 256]
Seeds == {0, 131}

FlagsIdle ==
    /\ fty = "Access"
    /\ fl = [r \in Regs |-> EmptyFlags]
    /\ usage = <<"GpuOnly">>

CastIdle ==
    /\ ptr_width = 64
    /\ mem = <<>>
    /\ slice = NoResult
    /\ B = Scalar("u8")
    /\ result = NoResult
    /\ pc = "idle"

\* A caller holds a valid &[A]: aligned for A, inside the buffer.
Init ==
    /\ ptr_width \in PtrWidths
    /\ \E A \in PodTypes, n \in 0 .. MaxLen, off \in 0 .. MaxOffset, seed \in Seeds :
          /\ (4 * off) % AlignOf(A, ptr_width) = 0
          /\ slice = [ty |-> A, ptr |-> 4 * off, len |-> n]
          /\ mem = Pattern(seed, 4 * off + n * SizeOf(A, ptr_width))
          /\ B = A
    /\ result = NoResult
    /\ pc = "ready"
    /\ FlagsIdle

Next == \E Bt \in PodTypes : CastSlice(Bt)

Spec == Init /\ [][Next]_vars

FlagInit ==
    /\ CastIdle
    /\ fty \in FlagTypes
    /\ fl = [r \in Regs |-> EmptyFlags]
    /\ usage = <<"GpuOnly">>

FlagNext ==
    \/ \E r \in Regs, c \in AccessConsts \cup BindConsts \cup {EmptyFlags} : FlagConst(r, c)
    \/ \E r, p, q \in Regs : FlagUnion(r, p, q)
    \/ \E r, p, q \in Regs : FlagIntersect(r, p, q)
    \/ \E r, p \in Regs, c \in AccessConsts \cup BindConsts : FlagUnionConst(r, p, c)
    \/ \E r, p \in Regs, c \in AccessConsts \cup BindConsts : FlagIntersectConst(r, p, c)

FlagSpec == FlagInit /\ [][FlagNext]_vars

UsageInit == CastIdle /\ FlagsIdle

UsageNext ==
    \/ \E r \in Regs, c \in AccessConsts \cup {EmptyFlags} : FlagConst(r, c)
    \/ \E r, p, q \in Regs : FlagUnion(r, p, q)
    \/ \E r, p, q \in Regs : FlagIntersect(r, p, q)
    \/ \E r, p \in Regs, c \in AccessConsts : FlagUnionConst(r, p, c)
    \/ \E r, p \in Regs, c \in AccessConsts : FlagIntersectConst(r, p, c)
    \/ \E tag \in PlainUsages : MakeUsage(tag)
    \/ \E tag \in AccessUsages, r \in Regs : MakeUsageAccess(tag, r)

UsageSpec == UsageInit /\ [][UsageNext]_vars

----------------------------------------------------------------------------
(* Properties of cast_slice, checked under Spec *)

Called == pc # "ready"

\* a is a multiple of b: a = k * b for some k
IsMultiple(a, b) == \E k \in 0 .. a : a = k * b

\* the argument is a valid &[A]: its pointer is aligned for A
ArgValid == slice.ptr % AlignOf(slice.ty, ptr_width) = 0

\* the byte length of the argument and the size of the target type
ArgBytes == slice.len * SizeOf(slice.ty, ptr_width)
TargetSize == SizeOf(B, ptr_width)

\* C1: whenever cast_slice::<A, B>(s) returns r,
\* length(r) * size_of(B) = length(s) * size_of(A).
ThmByteLength ==
    pc = "returned" => result.len * TargetSize = ArgBytes

\* 2 elements of [i32; 4] viewed as i64 give 4 elements
WitByteLength ==
    /\ pc = "returned"
    /\ slice.ty = Array("i32", 4)
    /\ slice.len = 2
    /\ B = Scalar("i64")
    /\ result.len = 4

\* C2: when the byte length of the source is not a multiple of size_of(B),
\* cast_slice stops at the assertion and returns nothing.
CexDivisibilityAbort ==
    (Called /\ ~IsMultiple(ArgBytes, TargetSize)) => pc = "assert_failed"

\* C3: no type with the Pod marker has size zero, so the divisor
\* size_of(B) of a call is never 0.
CexNonzeroSize ==
    Called => (SizeOf(slice.ty, ptr_width) # 0 /\ TargetSize # 0)

\* C4: a call fails only at the divisibility assertion: it returns whenever
\* the byte length of the source is a multiple of size_of(B), and no other
\* failure is reachable.
CexOnlyDivisibilityFails ==
    Called => /\ pc \in {"returned", "assert_failed"}
              /\ IsMultiple(ArgBytes, TargetSize) => pc = "returned"

\* C5: cast_slice::<A, A>(s) returns, and its result has the length and the
\* bytes of s.
CexRoundTrip ==
    (Called /\ ArgValid /\ B = slice.ty) =>
        /\ pc = "returned"
        /\ result.len = slice.len
        /\ Bytes(result, ptr_width) = Bytes(slice, ptr_width)

\* C6: whenever cast_slice::<A, B>(s) returns r, the bytes under r are the
\* bytes under s, in the same order.
ThmBytesPreserved ==
    pc = "returned" => Bytes(result, ptr_width) = Bytes(slice, ptr_width)

\* 4 elements of f32 viewed as u8 give 16 elements, the i-th being the i-th
\* stored byte of the source
WitBytesPreserved ==
    /\ pc = "returned"
    /\ slice.ty = Scalar("f32")
    /\ slice.len = 4
    /\ slice.ptr > 0
    /\ B = Scalar("u8")
    /\ result.len = 16
    /\ \A i \in 1 .. 16 : Bytes(result, ptr_width)[i] = mem[slice.ptr + i]

\* C10: if cast_slice::<A, B>(s) returned r, then cast_slice::<B, A>(r)
\* returns, and its result has the length and the bytes of s.
CexInverse ==
    [][(pc = "returned" /\ ArgValid /\ B' = slice.ty) =>
          /\ pc' = "returned"
          /\ result'.len = slice.len
          /\ Bytes(result', ptr_width) = Bytes(slice, ptr_width)]_vars

----------------------------------------------------------------------------
(* Properties of the flags, checked under FlagSpec *)

\* v has no bit outside mask
Within(v, mask) == v \in 0 .. 255 /\ BitAnd(v, mask) = v

\* the values obtained from S by unions and intersections
RECURSIVE Generated(_)
Generated(S) ==
    LET T == S \cup {BitOr(a, b) : a, b \in S} \cup {BitAnd(a, b) : a, b \in S}
    IN IF T = S THEN S ELSE Generated(T)

AccessGenerated == Generated(AccessConsts \cup {EmptyFlags})
BindGenerated == Generated(BindConsts)

\* C7: union is idempotent, commutative and associative on Access and on
\* Bind values, and RW = READ | WRITE.
ThmFlagLaws ==
    /\ \A r \in Regs : BitOr(fl[r], fl[r]) = fl[r]
    /\ \A p, q \in Regs : BitOr(fl[p], fl[q]) = BitOr(fl[q], fl[p])
    /\ BitOr(BitOr(fl["x"], fl["y"]), fl["z"]) = BitOr(fl["x"], BitOr(fl["y"], fl["z"]))
    /\ RW = BitOr(READ, WRITE)

\* three overlapping Bind values, each the union of two named constants
WitFlagLaws ==
    /\ fty = "Bind"
    /\ fl["x"] = BitOr(RENDER_TARGET, DEPTH_STENCIL)
    /\ fl["y"] = BitOr(DEPTH_STENCIL, SHADER_RESOURCE)
    /\ fl["z"] = BitOr(SHADER_RESOURCE, UNORDERED_ACCESS)

\* C8: an Access value built from the named constants by unions and
\* intersections has no bit outside 0x3, a Bind value none outside 0xF, and
\* all 16 subsets of the four Bind bits can be built.
ThmFlagClosure ==
    /\ fty = "Access" => \A r \in Regs : Within(fl[r], 3)
    /\ fty = "Bind" => \A r \in Regs : Within(fl[r], 15)
    /\ \A v \in AccessGenerated : Within(v, 3)
    /\ BindGenerated = 0 .. 15

\* the full Bind set, and the empty one obtained by intersecting two
\* disjoint unions
WitFlagClosure ==
    /\ fty = "Bind"
    /\ fl["x"] = 15
    /\ fl["y"] = 10
    /\ fl["z"] = 0

----------------------------------------------------------------------------
(* Properties of Usage, checked under UsageSpec *)

\* C9 as stated: the Access payload of a Persistent or CpuOnly value is a
\* non-empty combination of READ and WRITE.
CexUsagePayloadNonEmpty ==
    usage[1] \in AccessUsages =>
        /\ Within(usage[2], BitOr(READ, WRITE))
        /\ usage[2] # EmptyFlags

\* C9 as amended: the Access payload of a Persistent or CpuOnly value has no
\* bit outside READ | WRITE; it may be empty.
ThmUsagePayload ==
    usage[1] \in AccessUsages => Within(usage[2], BitOr(READ, WRITE))

\* Usage::Persistent(Access::empty()), built after x was READ & WRITE
WitUsagePayload ==
    /\ usage = <<"Persistent", EmptyFlags>>
    /\ fl["x"] = EmptyFlags
    /\ fl["y"] = READ
    /\ fl["z"] = WRITE

====
